---- MODULE Spec2Model ----
(***************************************************************************)
(* Living Inventory Management System (src/app.py).                       *)
(*                                                                         *)
(* State: the Streamlit session's inventory list, the backing file         *)
(* inventory.json, the session's life cycle, the messages of the last      *)
(* script run, the wall clock that date_added is read from, the filter     *)
(* widgets and the filtered view.  Operations: session start (load), Add   *)
(* Item, Delete Selected Item, Update Price, the rendering of the          *)
(* filtered view, and the whole-file rewrite save_inventory with the ways  *)
(* it can end.                                                             *)
(*                                                                         *)
(* The file is modelled as the sequence of JSON tokens json.dump writes    *)
(* (one token per chunk of its encoder), json.load as a parser of such a   *)
(* sequence.  Prices are counted in hundredths (the widgets' step).        *)
(*                                                                         *)
(* Specifications:                                                         *)
(*   Spec        the operations over a storage that never fails            *)
(*   SpecFaults  the same with failing writes and a process that can die   *)
(*   SpecLoad    the load over arbitrary file contents                     *)
(*   SpecView    the filters over stores built by adds                     *)
(***************************************************************************)
EXTENDS Integers, Sequences, FiniteSets, TLC

VARIABLES
    inventory,        \* st.session_state.inventory
    file,             \* inventory.json: [exists, content (token sequence)]
    session,          \* "none" | "running" | "failed" (the load raised)
    error,            \* the exception the last script run surfaced, or "none"
    message,          \* the st.success message of the last script run, or "none"
    now,              \* the wall clock, in seconds
    category_filter,  \* the "Filter by Category" multiselect
    search_term,      \* the "Search by Name" text input
    view,             \* filtered_df of the last rendering of tab1
    faults,           \* history: number of failed or interrupted saves so far
    deleted           \* history: a delete has been performed

vars == <<inventory, file, session, error, message, now, category_filter,
          search_term, view, faults, deleted>>

-----------------------------------------------------------------------------
(* Bounds *)

MaxItems == 3       \* longest inventory
MaxClock == 0       \* last second of the clock
MaxFaults == 1      \* failed or interrupted saves per behaviour
MaxCut == 2         \* longest file prefix an interrupted write leaves
MaxFileLen == 3     \* longest arbitrary file content given to load
MaxTermLen == 2     \* longest search term
MaxViewItems == 2   \* longest inventory the view is computed over

-----------------------------------------------------------------------------
(* Helpers *)

Range(s) == {s[i] : i \in 1..Len(s)}

Min(a, b) == IF a < b THEN a ELSE b

RECURSIVE Concat(_)
Concat(ss) == IF ss = <<>> THEN <<>> ELSE Head(ss) \o Concat(Tail(ss))

-----------------------------------------------------------------------------
(* Inputs *)

\* the category selectbox
Categories == <<"Plants", "Pets", "Aquatic Life", "Other">>

\* the sidebar widgets' values when Add Item is pressed: sample inputs
\* (quantity >= 1 and price >= 0 are enforced by the number inputs)
Forms == <<
    [name |-> "Ab", category |-> Categories[1], quantity |-> 2, price |-> 999,
     care_instructions |-> "water weekly"],
    [name |-> "b.", category |-> Categories[3], quantity |-> 1, price |-> 0,
     care_instructions |-> ""],
    [name |-> "ba", category |-> Categories[1], quantity |-> 3, price |-> 450,
     care_instructions |-> ""],
    [name |-> "", category |-> Categories[4], quantity |-> 1, price |-> 125,
     care_instructions |-> "x"] >>

FormInputs == {Forms[1], Forms[2]}

\* the value of the New Price number input when Update Price is pressed
NewPrices == {1250}

\* datetime.now().strftime("%Y-%m-%d %H:%M:%S") at second t
strftime(t) ==
    CASE t = 0 -> "2024-01-01 00:00:00"
      [] t = 1 -> "2024-01-01 00:00:01"
      [] t = 2 -> "2024-01-01 00:00:02"
      [] OTHER -> "2024-01-01 00:00:03"

-----------------------------------------------------------------------------
(* JSON: json.dump as the token sequence it writes, json.load as a parser *)

Tok(k, v) == [k |-> k, v |-> v]
P(k) == Tok(k, "")

\* the keys of a record, in the dict's insertion order
ItemKeys == <<"id", "name", "category", "quantity", "price",
              "care_instructions", "date_added">>

\* the literal json.dump writes for one value: ints and floats as numbers,
\* str as a string
value_token(key, val) ==
    CASE key \in {"id", "quantity"} -> Tok("int", val)
      [] key = "price" -> Tok("float", val)
      [] OTHER -> Tok("str", val)

member_tokens(item, n) ==
    (IF n = 1 THEN <<>> ELSE <<P(",")>>)
        \o <<Tok("str", ItemKeys[n]), P(":"), value_token(ItemKeys[n], item[ItemKeys[n]])>>

item_tokens_nodate(item) ==
    <<P("{")>> \o Concat([n \in 1..(Len(ItemKeys) - 1) |-> member_tokens(item, n)])
        \o <<P("}")>>

item_tokens(item) ==
    <<P("{")>> \o Concat([n \in 1..Len(ItemKeys) |-> member_tokens(item, n)])
        \o <<P("}")>>

json_dump(inv) ==
    <<P("[")>>
        \o Concat([i \in 1..Len(inv) |->
                     (IF i = 1 THEN <<>> ELSE <<P(",")>>) \o item_tokens(inv[i])])
        \o <<P("]")>>

\* parsed JSON as a tagged tree
JStr(s) == [t |-> "str", v |-> s]
JNum(n) == [t |-> "num", v |-> n]
JArr(xs) == [t |-> "arr", v |-> xs]
JObj(ms) == [t |-> "obj", v |-> ms]     \* ms: sequence of <<key, value>>

ParseFail == [ok |-> FALSE, val |-> [t |-> "none", v |-> ""], next |-> 0]
ParseOk(val, next) == [ok |-> TRUE, val |-> val, next |-> next]

RECURSIVE ParseValue(_, _), ParseElems(_, _, _), ParseMembers(_, _, _)

ParseValue(s, i) ==
    IF i > Len(s) THEN ParseFail
    ELSE CASE s[i].k = "str" -> ParseOk(JStr(s[i].v), i + 1)
           [] s[i].k \in {"int", "float"} -> ParseOk(JNum(s[i].v), i + 1)
           [] s[i].k = "[" ->
                IF i + 1 <= Len(s) /\ s[i + 1].k = "]"
                THEN ParseOk(JArr(<<>>), i + 2)
                ELSE ParseElems(s, i + 1, <<>>)
           [] s[i].k = "{" ->
                IF i + 1 <= Len(s) /\ s[i + 1].k = "}"
                THEN ParseOk(JObj(<<>>), i + 2)
                ELSE ParseMembers(s, i + 1, <<>>)
           [] OTHER -> ParseFail

ParseElems(s, i, acc) ==
    LET r == ParseValue(s, i) IN
    IF ~r.ok \/ r.next > Len(s) THEN ParseFail
    ELSE CASE s[r.next].k = "," -> ParseElems(s, r.next + 1, Append(acc, r.val))
           [] s[r.next].k = "]" -> ParseOk(JArr(Append(acc, r.val)), r.next + 1)
           [] OTHER -> ParseFail

ParseMembers(s, i, acc) ==
    IF i + 1 > Len(s) \/ s[i].k # "str" \/ s[i + 1].k # ":" THEN ParseFail
    ELSE LET r == ParseValue(s, i + 2) IN
         IF ~r.ok \/ r.next > Len(s) THEN ParseFail
         ELSE CASE s[r.next].k = "," ->
                     ParseMembers(s, r.next + 1, Append(acc, <<s[i].v, r.val>>))
                [] s[r.next].k = "}" ->
                     ParseOk(JObj(Append(acc, <<s[i].v, r.val>>)), r.next + 1)
                [] OTHER -> ParseFail

\* the whole document: one value and nothing after it
json_parse(s) ==
    LET r == ParseValue(s, 1) IN
    IF r.ok /\ r.next = Len(s) + 1 THEN r ELSE ParseFail

\* the Python value of a parsed tree: list, dict (last duplicate key wins),
\* str, number
RECURSIVE ToPy(_)
ToPy(j) ==
    CASE j.t = "arr" -> [i \in 1..Len(j.v) |-> ToPy(j.v[i])]
      [] j.t = "obj" ->
            [key \in {j.v[i][1] : i \in 1..Len(j.v)} |->
                LET idx == CHOOSE i \in 1..Len(j.v) :
                              /\ j.v[i][1] = key
                              /\ \A m \in (i + 1)..Len(j.v) : j.v[m][1] # key
                IN ToPy(j.v[idx][2])]
      [] OTHER -> j.v

json_load(s) == ToPy(json_parse(s).val)

-----------------------------------------------------------------------------
(* The store *)

NoFile == [exists |-> FALSE, content |-> <<>>]
FileOf(content) == [exists |-> TRUE, content |-> content]

Init ==
    /\ inventory = <<>>
    /\ file = NoFile
    /\ session = "none"
    /\ error = "none"
    /\ message = "none"
    /\ now = 0
    /\ category_filter = {}
    /\ search_term = <<>>
    /\ view = <<>>
    /\ faults = 0
    /\ deleted = FALSE

-----------------------------------------------------------------------------
(* Session start: the load of inventory.json *)

\* 'inventory' not in st.session_state: a new session, or a rerun of a
\* session whose load raised
Startup ==
    LET doc == json_parse(file.content) IN
    /\ session \in {"none", "failed"}
    /\ \/ /\ ~file.exists
          /\ inventory' = <<>>
          /\ session' = "running"
          /\ error' = "none"
       \/ /\ file.exists
          /\ doc.ok
          /\ inventory' = ToPy(doc.val)
          /\ session' = "running"
          /\ error' = "none"
       \/ /\ file.exists
          /\ ~doc.ok
          /\ inventory' = <<>>
          /\ session' = "failed"
          /\ error' = "JSONDecodeError"
    /\ message' = "none"
    /\ UNCHANGED <<file, now, category_filter, search_term, view, faults, deleted>>

\* the browser session ends; its session state is dropped
SessionEnd ==
    /\ session \in {"running", "failed"}
    /\ session' = "none"
    /\ inventory' = <<>>
    /\ error' = "none"
    /\ message' = "none"
    /\ category_filter' = {}
    /\ search_term' = <<>>
    /\ view' = <<>>
    /\ UNCHANGED <<file, now, faults, deleted>>

-----------------------------------------------------------------------------
(* save_inventory: open(..., 'w') truncates the file, json.dump writes the
   tokens one by one.  It ends in one of four ways:
     ok           all tokens written, file closed
     open_error   open raises (permission denied): the file is untouched
     write_error  a write raises (disk full): the file holds a proper prefix
     crash        the process dies while writing: the file holds a proper
                  prefix and the session is gone *)

SaveOutcomes == {"ok", "open_error", "write_error", "crash"}

Cuts(content, o) ==
    IF o \in {"write_error", "crash"}
    THEN 0..Min(MaxCut, Len(content) - 1)
    ELSE {0}

written(content, o, k) ==
    CASE o = "ok" -> FileOf(content)
      [] o = "open_error" -> file
      [] OTHER -> FileOf(SubSeq(content, 1, k))

\* the in-memory list `inv` has already been assigned when save runs; `msg` is
\* the st.success that follows the save
save_inventory(inv, o, k, msg) ==
    LET content == json_dump(inv) IN
    /\ o \in SaveOutcomes
    /\ o # "ok" => faults < MaxFaults
    /\ faults' = IF o = "ok" THEN faults ELSE faults + 1
    /\ message' = IF o = "ok" THEN msg ELSE "none"
    /\ error' = IF o \in {"open_error", "write_error"} THEN "OSError" ELSE "none"
    /\ session' = IF o = "crash" THEN "none" ELSE "running"
    /\ k \in Cuts(content, o)
    /\ file' = written(content, o, k)
    /\ inventory' = IF o = "crash" THEN <<>> ELSE inv
    /\ category_filter' = IF o = "crash" THEN {} ELSE category_filter
    /\ search_term' = IF o = "crash" THEN <<>> ELSE search_term
    /\ view' = IF o = "crash" THEN <<>> ELSE view

-----------------------------------------------------------------------------
(* Add Item *)

new_id_len(inv) == Len(inv)

new_id(inv) == Len(inv) + 1

new_item(inv, form, t) ==
    [id |-> new_id(inv),
     name |-> form.name,
     category |-> form.category,
     quantity |-> form.quantity,
     price |-> form.price,
     care_instructions |-> form.care_instructions,
     date_added |-> strftime(t)]

prepend_item(inv, item) == <<item>> \o inv

append_item(inv, item) == Append(inv, item)

AddItem(form, t, o, k) ==
    /\ session = "running"
    /\ t \in now..MaxClock
    /\ save_inventory(append_item(inventory, new_item(inventory, form, t)), o, k,
                      "Item added successfully!")
    /\ now' = t
    /\ UNCHANGED deleted

-----------------------------------------------------------------------------
(* Delete Selected Item *)

\* the options of both id selectboxes
id_options(inv) == {inv[i].id : i \in 1..Len(inv)}

RECURSIVE remove_first(_, _)
remove_first(inv, id) ==
    IF inv = <<>> THEN <<>>
    ELSE IF Head(inv).id = id THEN Tail(inv)
    ELSE <<Head(inv)>> \o remove_first(Tail(inv), id)

delete_items(inv, id) ==
    LET keep(item) == item.id # id IN SelectSeq(inv, keep)

DeleteItem(id, o, k) ==
    /\ session = "running"
    /\ inventory # <<>>
    /\ id \in id_options(inventory)
    /\ save_inventory(delete_items(inventory, id), o, k, "Item deleted successfully!")
    /\ deleted' = TRUE
    /\ UNCHANGED now

-----------------------------------------------------------------------------
(* Update Price *)

update_first(inv, id, p) ==
    LET first == CHOOSE i \in 1..Len(inv) :
                    inv[i].id = id /\ \A m \in 1..(i - 1) : inv[m].id # id
    IN [inv EXCEPT ![first].price = p]

update_items(inv, id, p) ==
    [i \in 1..Len(inv) |->
        IF inv[i].id = id THEN [inv[i] EXCEPT !.price = p] ELSE inv[i]]

UpdatePrice(id, p, o, k) ==
    /\ session = "running"
    /\ inventory # <<>>
    /\ id \in id_options(inventory)
    /\ p \in NewPrices
    /\ save_inventory(update_items(inventory, id, p), o, k, "Price updated successfully!")
    /\ UNCHANGED <<now, deleted>>

-----------------------------------------------------------------------------

Ids == 1..(MaxItems + 1)
Times == 0..MaxClock
CutLens == 0..MaxCut

\* the operations with a storage that never fails
Next ==
    \/ Startup
    \/ SessionEnd
    \/ \E form \in FormInputs, t \in Times :
          Len(inventory) < MaxItems /\ AddItem(form, t, "ok", 0)
    \/ \E id \in Ids : DeleteItem(id, "ok", 0)
    \/ \E id \in Ids, p \in NewPrices : UpdatePrice(id, p, "ok", 0)

Spec == Init /\ [][Next]_vars

\* the operations with a storage that can fail, and a process that can die
\* during a save
FaultNext ==
    \/ Startup
    \/ SessionEnd
    \/ \E form \in FormInputs, t \in Times, o \in SaveOutcomes, k \in CutLens :
          Len(inventory) < MaxItems /\ AddItem(form, t, o, k)
    \/ \E id \in Ids, o \in SaveOutcomes, k \in CutLens :
          DeleteItem(id, o, k)
    \/ \E id \in Ids, p \in NewPrices, o \in SaveOutcomes, k \in CutLens :
          UpdatePrice(id, p, o, k)

SpecFaults == Init /\ [][FaultNext]_vars

-----------------------------------------------------------------------------
(* The view of tab1: the two filters over the inventory *)

\* the characters of a name (the names the sample inputs use)
Chars(name) ==
    CASE name = "Ab" -> <<"A", "b">>
      [] name = "b." -> <<"b", ".">>
      [] name = "ba" -> <<"b", "a">>
      [] OTHER -> <<>>

TermChars == {"a", "b", "A", "."}

RECURSIVE TermsOfLen(_)
TermsOfLen(n) ==
    IF n = 0 THEN {<<>>}
    ELSE {Append(w, c) : w \in TermsOfLen(n - 1), c \in TermChars}

Terms == UNION {TermsOfLen(n) : n \in 0..MaxTermLen}

\* case=False: re.IGNORECASE
lower(c) == IF c = "A" THEN "a" ELSE c

\* one pattern character against one character of the text: str.contains
\* compiles the term as a regular expression (regex=True is its default), in
\* which "." stands for any character
char_match(pc, c) == pc = "." \/ lower(pc) = lower(c)

\* re.search: the pattern matches at some offset of the text
regex_search(pat, text) ==
    \E off \in 0..(Len(text) - Len(pat)) :
        \A i \in 1..Len(pat) : char_match(pat[i], text[off + i])

\* df['category'].unique(): the options of the category multiselect
category_options(inv) == {inv[i].category : i \in 1..Len(inv)}

filter_by_categories(records, cf) ==
    LET isin(item) == item.category \in cf IN
    IF cf # {} THEN SelectSeq(records, isin) ELSE records

filter_by_name(records, term) ==
    LET contains(item) == regex_search(term, Chars(item.name)) IN
    IF term # <<>> THEN SelectSeq(records, contains) ELSE records

\* a script run that renders tab1 with the widgets' values cf and term
View(cf, term) ==
    /\ session = "running"
    /\ inventory # <<>>
    /\ cf \subseteq category_options(inventory)
    /\ category_filter' = cf
    /\ search_term' = term
    /\ view' = filter_by_name(filter_by_categories(inventory, cf), term)
    /\ message' = "none"
    /\ error' = "none"
    /\ UNCHANGED <<inventory, file, session, now, faults, deleted>>

\* the stores the view is computed over: what n adds of sample inputs leave
AllForms == Range(Forms)

RECURSIVE AddsOf(_)
AddsOf(n) ==
    IF n = 0 THEN {<<>>}
    ELSE {append_item(inv, new_item(inv, form, 0)) : inv \in AddsOf(n - 1), form \in AllForms}

ViewInit ==
    /\ inventory \in UNION {AddsOf(n) : n \in 1..MaxViewItems}
    /\ file = FileOf(json_dump(inventory))
    /\ session = "running"
    /\ error = "none"
    /\ message = "none"
    /\ now = 0
    /\ category_filter = {}
    /\ search_term = <<>>
    /\ view = inventory
    /\ faults = 0
    /\ deleted = FALSE

ViewNext == \E cf \in SUBSET Range(Categories), term \in Terms : View(cf, term)

SpecView == ViewInit /\ [][ViewNext]_vars

-----------------------------------------------------------------------------
(* The load, over arbitrary file contents *)

LoadTokens ==
    {P("["), P("]"), P("{"), P("}"), P(","), P(":"),
     Tok("str", "not json"), Tok("int", 1),
     P("bad")}      \* text that is no JSON token, such as a bare word

RECURSIVE ContentsOfLen(_)
ContentsOfLen(n) ==
    IF n = 0 THEN {<<>>}
    ELSE {Append(c, tok) : c \in ContentsOfLen(n - 1), tok \in LoadTokens}

LoadContents ==
    UNION {ContentsOfLen(n) : n \in 0..MaxFileLen}
        \cup {json_dump(inv) : inv \in AddsOf(1)}

LoadInit ==
    /\ file \in {NoFile} \cup {FileOf(c) : c \in LoadContents}
    /\ inventory = <<>>
    /\ session = "none"
    /\ error = "none"
    /\ message = "none"
    /\ now = 0
    /\ category_filter = {}
    /\ search_term = <<>>
    /\ view = <<>>
    /\ faults = 0
    /\ deleted = FALSE

LoadNext == Startup \/ SessionEnd

SpecLoad == LoadInit /\ [][LoadNext]_vars

-----------------------------------------------------------------------------
(* Properties *)

NonCrash == SaveOutcomes \ {"crash"}
FailedWrites == {"open_error", "write_error"}

added(form, t) == append_item(inventory, new_item(inventory, form, t))

\* a step in which a save ran to its end or raised, showing the message msg
\* if it succeeded (every step of a mutating operation that is not a crash
\* is one)
SaveEnded(msg) == message' = msg \/ error' = "OSError"

\* C1: in every state reachable from the empty store by add, delete and
\* update_price, no two records of the store have the same id.
IdsUnique ==
    \A i, j \in 1..Len(inventory) :
        inventory[i].id = inventory[j].id => i = j

\* C2: after a completed mutating operation whose write did not fail (its
\* success message is up), the backing file exists, parses, and loads to a
\* sequence equal to the in-memory store, record for record and field for
\* field.
SavedFileEqualsStore ==
    (session = "running" /\ message # "none") =>
        /\ file.exists
        /\ json_parse(file.content).ok
        /\ json_load(file.content) = inventory

SavedFileEqualsStoreWitness ==
    /\ session = "running"
    /\ message = "Price updated successfully!"
    /\ Len(inventory) >= 2
    /\ json_load(file.content) = inventory

\* C3: a process death during a save leaves the backing file holding either
\* the complete previous contents or the complete new record sequence.
CrashLeavesOldOrNew(inv) == file' = file \/ file' = FileOf(json_dump(inv))

SaveIsAtomic ==
    [][/\ \A form \in FormInputs, t \in Times, k \in CutLens :
              AddItem(form, t, "crash", k) => CrashLeavesOldOrNew(added(form, t))
       /\ \A id \in Ids, k \in CutLens :
              DeleteItem(id, "crash", k) =>
                  CrashLeavesOldOrNew(delete_items(inventory, id))
       /\ \A id \in Ids, p \in NewPrices, k \in CutLens :
              UpdatePrice(id, p, "crash", k) =>
                  CrashLeavesOldOrNew(update_items(inventory, id, p))]_vars

\* C4: delete(id) removes exactly the records whose id is the given one: the
\* store afterwards is the previous store's records with another id, each
\* unchanged in every field, in the same relative order, and none with that id.
DeletePost(pre, post, id) ==
    LET kept == {i \in 1..Len(pre) : pre[i].id # id}
        nth(j) == CHOOSE i \in kept : Cardinality({m \in kept : m <= i}) = j
    IN /\ Len(post) = Cardinality(kept)
       /\ \A j \in 1..Len(post) : post[j] = pre[nth(j)] /\ post[j].id # id

DeleteRemovesExactlyMatches ==
    [][SaveEnded("Item deleted successfully!") =>
          \A id \in Ids, o \in NonCrash, k \in CutLens :
              DeleteItem(id, o, k) => DeletePost(inventory, inventory', id)]_vars

DeleteWitness ==
    /\ message = "Item deleted successfully!"
    /\ Len(inventory) >= 2
    /\ inventory[1].name # inventory[2].name

\* C5: update_price(id, p) sets price = p on every record with that id and
\* changes nothing else (length, order, the other fields of the matching
\* records, every field of the others); and in any step of a session every
\* record of the store is the newly added one or a previous record changed,
\* if at all, in its price only.
OtherFields == Range(ItemKeys) \ {"price"}

SameButPrice(r1, r2) ==
    /\ DOMAIN r1 = DOMAIN r2
    /\ \A key \in OtherFields : r1[key] = r2[key]

UpdatePost(pre, post, id, p) ==
    /\ Len(post) = Len(pre)
    /\ \A i \in 1..Len(pre) :
          IF pre[i].id = id
          THEN SameButPrice(pre[i], post[i]) /\ post[i].price = p
          ELSE post[i] = pre[i]

OnlyPriceChanges(pre, post) ==
    \A j \in 1..Len(post) :
        \/ j = Len(post) /\ Len(post) = Len(pre) + 1
        \/ \E i \in 1..Len(pre) : SameButPrice(pre[i], post[j])

UpdateChangesOnlyPrice ==
    [][/\ SaveEnded("Price updated successfully!") =>
              \A id \in Ids, p \in NewPrices, o \in NonCrash, k \in CutLens :
                  UpdatePrice(id, p, o, k) =>
                      UpdatePost(inventory, inventory', id, p)
       /\ (session = "running" /\ session' = "running") =>
              OnlyPriceChanges(inventory, inventory')]_vars

UpdateWitness ==
    /\ message = "Price updated successfully!"
    /\ \E i, j \in 1..Len(inventory) :
          /\ inventory[i].price \in NewPrices
          /\ inventory[j].price \notin NewPrices

\* C7: add appends exactly one record at the end of the store, with
\* id = size before the add + 1 and the fields given, and leaves the existing
\* records and their order unchanged, whatever the store and the inputs.
AddPost(pre, post, form, t) ==
    /\ Len(post) = Len(pre) + 1
    /\ \A i \in 1..Len(pre) : post[i] = pre[i]
    /\ post[Len(post)].id = Len(pre) + 1
    /\ post[Len(post)].name = form.name
    /\ post[Len(post)].category = form.category
    /\ post[Len(post)].quantity = form.quantity
    /\ post[Len(post)].price = form.price
    /\ post[Len(post)].care_instructions = form.care_instructions
    /\ post[Len(post)].date_added = strftime(t)

AddAppendsOne ==
    [][SaveEnded("Item added successfully!") =>
          \A form \in FormInputs, t \in Times, o \in NonCrash, k \in CutLens :
              AddItem(form, t, o, k) => AddPost(inventory, inventory', form, t)]_vars

\* add has no precondition: it can be performed with any input in every state
\* of a running session
AddAlwaysEnabled ==
    session = "running" =>
        \A form \in FormInputs : ENABLED AddItem(form, now, "ok", 0)

AddWitness ==
    /\ message = "Item added successfully!"
    /\ Len(inventory) >= 2
    /\ inventory[1].name # inventory[Len(inventory)].name

\* C8: the displayed view is exactly the records whose category is in the
\* selected set (all when the set is empty) and whose name contains the search
\* term, case-insensitively (all when the term is empty), in store order.
contains_substring(term, text) ==
    \E off \in 0..(Len(text) - Len(term)) :
        \A i \in 1..Len(term) : lower(term[i]) = lower(text[off + i])

ViewIsSubstringIntersection ==
    LET shown(item) ==
            /\ (category_filter = {} \/ item.category \in category_filter)
            /\ (search_term = <<>> \/ contains_substring(search_term, Chars(item.name)))
    IN view = SelectSeq(inventory, shown)

\* C9: when the storage write of a mutating operation fails, the error is
\* surfaced, the in-memory store holds the mutation, and the backing file
\* keeps its pre-operation contents.
FailedWritePost(inv) ==
    /\ error' = "OSError"
    /\ inventory' = inv
    /\ file' = file

FailedWriteKeepsFile ==
    [][/\ \A form \in FormInputs, t \in Times, o \in FailedWrites, k \in CutLens :
              AddItem(form, t, o, k) => FailedWritePost(added(form, t))
       /\ \A id \in Ids, o \in FailedWrites, k \in CutLens :
              DeleteItem(id, o, k) => FailedWritePost(delete_items(inventory, id))
       /\ \A id \in Ids, p \in NewPrices, o \in FailedWrites, k \in CutLens :
              UpdatePrice(id, p, o, k) =>
                  FailedWritePost(update_items(inventory, id, p))]_vars

\* C6: the load fails whenever the backing file exists and its content is not
\* valid JSON or not an array of record objects with the expected fields; no
\* session runs on a store built from such content.
NumberFields == {"id", "quantity", "price"}

IsRecord(j) ==
    /\ j.t = "obj"
    /\ {j.v[i][1] : i \in 1..Len(j.v)} = Range(ItemKeys)
    /\ \A i \in 1..Len(j.v) :
          j.v[i][2].t = (IF j.v[i][1] \in NumberFields THEN "num" ELSE "str")

IsRecordArray(j) == j.t = "arr" /\ \A i \in 1..Len(j.v) : IsRecord(j.v[i])

WellFormed(f) ==
    LET doc == json_parse(f.content) IN doc.ok /\ IsRecordArray(doc.val)

LoadRejectsCorruptFile ==
    (session # "none" /\ file.exists /\ ~WellFormed(file)) => session = "failed"

\* C10: each record's id is at least its 1-based position in the store, and
\* as long as no delete has been performed it equals that position.
IdAtLeastPosition ==
    \A i \in 1..Len(inventory) :
        /\ inventory[i].id >= i
        /\ ~deleted => inventory[i].id = i

IdAbovePositionWitness ==
    /\ deleted
    /\ Len(inventory) >= 2
    /\ \E i \in 1..Len(inventory) : inventory[i].id > i

====
